---------------------------- MODULE Spec2Model ----------------------------
(*
  Model of src/analysis.py: the Flask service that computes a shadow matrix
  over a fixed terrain (dsm), archives it to MongoDB, renders it twice with
  matplotlib's pyplot and returns timestamp + two images.

  One process (the __main__ block) boots the service; every request is a
  thread running calculate_shadow.  The state the threads share is the
  module globals (dsm, db), the collection behind db, the wall clock and
  pyplot's figure registry (Gcf), which plt.figure / plt.gca / plt.savefig /
  plt.close read and write.
*)
EXTENDS Integers, Sequences, FiniteSets, TLC

-----------------------------------------------------------------------------
(* Bounds *)

\* number of request threads the server dispatches
NumRequests == 2
\* terrain dimensions
Rows == 3
Cols == 3
\* height of the relief in the non-flat terrain artifacts
PeakHeight == 3
\* the wall clock counts ticks, TicksPerSecond to the second, up to MaxTick
TicksPerSecond == 2
MaxTick == 2

Requests == 1..NumRequests
Cells == (1..Rows) \X (1..Cols)

-----------------------------------------------------------------------------
(* Floating point values, as far as the code distinguishes them *)

Num(n) == [k |-> "num", n |-> n, d |-> 1]
NaN == [k |-> "nan", n |-> 0, d |-> 1]
Inf == [k |-> "inf", n |-> 0, d |-> 1]
Raised == [k |-> "raise", n |-> 0, d |-> 1]

\* numpy's floating point error state; the program never calls np.seterr,
\* so division by zero warns and yields nan/inf
np_errstate_raise == "raise"
np_errstate == "warn"

\* ndarray / scalar, one element: x.n / y with x numeric
true_divide_python(x, y) == IF y = 0 THEN Raised ELSE [k |-> "num", n |-> x, d |-> y]
true_divide(x, y) ==
    IF y = 0
    THEN IF np_errstate = "raise" THEN Raised
         ELSE IF x = 0 THEN NaN ELSE Inf
    ELSE [k |-> "num", n |-> x, d |-> y]

\* np.nan_to_num(dsm, nan=0)
nan_to_num(a) == [c \in DOMAIN a |-> IF a[c].k = "nan" THEN Num(0) ELSE a[c]]

RECURSIVE SetMax(_)
SetMax(S) ==
    LET x == CHOOSE v \in S : TRUE
    IN  IF S = {x} THEN x
        ELSE LET m == SetMax(S \ {x}) IN IF x > m THEN x ELSE m

RECURSIVE SetMin(_)
SetMin(S) ==
    LET x == CHOOSE v \in S : TRUE
    IN  IF S = {x} THEN x
        ELSE LET m == SetMin(S \ {x}) IN IF x < m THEN x ELSE m

np_max(a) == SetMax({a[c].n : c \in DOMAIN a})
np_min(a) == SetMin({a[c].n : c \in DOMAIN a})

-----------------------------------------------------------------------------
(* The terrain artifact ./dsm_local_array.npy *)

FlatZero == [c \in Cells |-> Num(0)]
PeakNaN == [c \in Cells |-> IF c = <<2, 2>> THEN Num(PeakHeight)
                            ELSE IF c = <<1, 1>> THEN NaN ELSE Num(0)]

\* what np.load can find on disk: a readable array, or nothing readable
TerrainFiles == {FlatZero, PeakNaN}

NoGrid == <<>>


-----------------------------------------------------------------------------
(* External collaborators: solarposition and shadowingfunction_wallheight_13 *)

\* solarposition.get_solarposition(timestamp, latitude, longitude): the sun's
\* elevation and azimuth at the second of the timestamp
get_solarposition(ts) ==
    IF (ts \div TicksPerSecond) % 2 = 0 THEN [elevation |-> 45, azimuth |-> 180]
                     ELSE [elevation |-> 45, azimuth |-> 90]

\* one grid step from a cell towards the sun (rows grow southwards)
TowardSun(azimuth) ==
    IF azimuth = 180 THEN <<1, 0>>
    ELSE IF azimuth = 90 THEN <<0, 1>>
    ELSE IF azimuth = 270 THEN <<0, -1>>
    ELSE <<-1, 0>>

\* height a sun ray gains over k cells at the given altitude, scale = 1
RayRise(altitude, k) == IF altitude = 45 THEN k ELSE 0

\* shadow.shadowingfunction_wallheight_13(dsm, azimuth, altitude, 1, walls,
\* dirwalls) with walls and dirwalls all zero: relief shadow only; a cell is
\* 1 when some cell towards the sun rises above the ray through it
shadowingfunction_wallheight_13(a, azimuth, altitude) ==
    LET dir == TowardSun(azimuth)
        reach == IF Rows > Cols THEN Rows ELSE Cols
        shaded(c) ==
            \E k \in 1..reach :
                LET o == <<c[1] + k * dir[1], c[2] + k * dir[2]>>
                IN  /\ o \in DOMAIN a
                    /\ a[o].n - a[c].n > RayRise(altitude, k)
    IN  [c \in DOMAIN a |-> IF shaded(c) THEN 1 ELSE 0]

\* calculate_shadow_matrix(timestamp), the value it returns when nothing raises
calculate_shadow_matrix(ts, terrain) ==
    LET df_solar == get_solarposition(ts)
    IN  shadowingfunction_wallheight_13(terrain, df_solar.azimuth, df_solar.elevation)

-----------------------------------------------------------------------------
(* Archiving *)

\* pickle.dumps of the array: its shape and its values in row-major order
pickle_dumps(m) ==
    IF m = NoGrid THEN <<0, 0>>
    ELSE <<Rows, Cols>> \o
         [i \in 1..(Rows * Cols) |-> m[<<((i - 1) \div Cols) + 1, ((i - 1) % Cols) + 1>>]]

\* gzip.compress(pickle.dumps(data))
compress_data(data) == [gzip |-> pickle_dumps(data)]

\* the document handed to save_shadow_matrix
ArchiveDocument(ts, m) == [timestamp |-> ts, shadow_matrix |-> compress_data(m)]

\* the try/except around the archive call: where calculate_shadow continues
\* for each way the archive call ends
archive_reraises(outcome) == IF outcome = "ok" THEN "hm_figure" ELSE "failed"
archive_except(outcome) == "hm_figure"

\* insert_one calls made by one archive call: compress_data is evaluated
\* first, and save_shadow_matrix is entered only when it returned
insert_retried(outcome) ==
    IF outcome = "serialize_error" THEN 0
    ELSE IF outcome = "insert_error" THEN 2 ELSE 1
insert_calls(outcome) == IF outcome = "serialize_error" THEN 0 ELSE 1

-----------------------------------------------------------------------------
(* Rendering *)

\* plt.cm.viridis(x)[:3] for one element: the lookup-table index of x in
\* [0, 1], or the colormap's bad colour for nan
viridis(x) ==
    IF x.k = "nan" THEN [bad |-> TRUE, idx |-> 0]
    ELSE IF x.k = "inf" THEN [bad |-> FALSE, idx |-> 255]
    ELSE LET i == (x.n * 256) \div x.d
         IN  [bad |-> FALSE, idx |-> IF i > 255 THEN 255 ELSE IF i < 0 THEN 0 ELSE i]

\* dsm_normalized = (dsm - np.min(dsm)) / (np.max(dsm) - np.min(dsm))
dsm_normalized(terrain) ==
    LET lo == np_min(terrain)
        hi == np_max(terrain)
    IN  [c \in DOMAIN terrain |-> true_divide(terrain[c].n - lo, hi - lo)]

\* whether evaluating dsm_normalized raises
normalize_raises(terrain) ==
    LET normalized == dsm_normalized(terrain)
    IN  \E c \in DOMAIN terrain : normalized[c].k = "raise"

\* img = plt.cm.viridis(dsm_normalized)[:, :, :3]
facecolors(terrain) ==
    LET normalized == dsm_normalized(terrain)
    IN  [c \in DOMAIN terrain |-> viridis(normalized[c])]

\* what sns.heatmap(matrix) and ax.plot_surface(X, Y, shadow_matrix,
\* facecolors=img) put on a figure
HeatmapArtist(matrix) == [kind |-> "heatmap", z |-> matrix, facecolors |-> NoGrid]
SurfaceArtist(matrix, colors) == [kind |-> "surface", z |-> matrix, facecolors |-> colors]

\* plt.savefig(buf, format="png"): the PNG signature, then the figure's artists
png(artists) == <<"PNG">> \o artists

\* base64.b64encode(buf.getvalue()).decode('utf-8')
b64encode(bytes) == [i \in 1..Len(bytes) |-> <<"b64", bytes[i]>>]

NoPayload == <<>>

\* the payloads a request gets when it is the only one using pyplot
HeatmapOf(matrix) == b64encode(png(<<HeatmapArtist(matrix)>>))
SurfaceOf(matrix, terrain) == b64encode(png(<<SurfaceArtist(matrix, facecolors(terrain))>>))

\* timestamp.strftime('%Y-%m-%d %H:%M:%S'): the microsecond is dropped
strftime(ts) == <<"Y-m-d H:M:S", ts \div TicksPerSecond>>

-----------------------------------------------------------------------------
(* State *)

VARIABLES
    main,           \* where the __main__ block is
    dsm,            \* module global dsm
    collection,     \* db['shadow_matrices'], in insertion order
    now,            \* the wall clock when last read, in ticks
    figs,           \* pyplot's registry of open figures, the current one last
    canvas,         \* what has been drawn on each figure
    pc,             \* where each request thread is in calculate_shadow
    timestamp,      \* calculate_shadow's local timestamp
    shadow_matrix,  \* calculate_shadow's local shadow_matrix
    heatmap,        \* calculate_shadow's local heatmap
    surface_plot,   \* calculate_shadow's local surface_plot
    response,       \* what the request's caller received
    steps,          \* the steps each request has completed, in order
    calls           \* per request: calls made and the arguments they received

shared == <<main, dsm, collection, now, figs, canvas>>
locals == <<pc, timestamp, shadow_matrix, heatmap, surface_plot, response>>
vars == <<main, dsm, collection, now, figs, canvas, pc, timestamp, shadow_matrix,
          heatmap, surface_plot, response, steps, calls>>

\* a figure is named by the call that created it
FigureCalls == {"hm_figure", "hm_draw", "hm_savefig", "sp_figure", "sp_savefig"}
Figures == Requests \X FigureCalls

NoTime == -1
NoResponse == [status |-> 0, body |-> <<>>]
ServerError == [status |-> 500, body |-> <<>>]
NoCalls == [fault |-> "none", compute |-> 0, insert |-> 0, archive |-> "none",
            archive_arg |-> NoGrid, heatmap_arg |-> NoGrid, surface_arg |-> NoGrid]

Finished(r) == pc[r] \in {"done", "failed"}

Init ==
    /\ main = "start"
    /\ dsm = NoGrid
    /\ collection = <<>>
    /\ now = 0
    /\ figs = <<>>
    /\ canvas = [f \in Figures |-> <<>>]
    /\ pc = [r \in Requests |-> "idle"]
    /\ timestamp = [r \in Requests |-> NoTime]
    /\ shadow_matrix = [r \in Requests |-> NoGrid]
    /\ heatmap = [r \in Requests |-> NoPayload]
    /\ surface_plot = [r \in Requests |-> NoPayload]
    /\ response = [r \in Requests |-> NoResponse]
    /\ steps = [r \in Requests |-> <<>>]
    /\ calls = [r \in Requests |-> NoCalls]

-----------------------------------------------------------------------------
(* The __main__ block *)

\* np.load raising is caught nowhere: the process ends with the traceback
load_error_ignored == "normalized"
load_error == "load_error"

\* the process has ended
Exited == main \in {"client_error", "load_error"}

\* MongoClient(...) and client.get_database: the client connects lazily, so
\* only a bad configuration makes it raise
InitClient ==
    /\ main = "start"
    /\ \E raises \in BOOLEAN : main' = IF raises THEN "client_error" ELSE "client"
    /\ UNCHANGED <<dsm, collection, now, figs, canvas, locals, steps, calls>>

\* dsm = np.load('./dsm_local_array.npy'): raises when the file is missing or
\* is no array
LoadTerrain ==
    /\ main = "client"
    /\ \/ /\ main' = load_error
          /\ dsm' = dsm
       \/ \E file \in TerrainFiles :
            /\ main' = "loaded"
            /\ dsm' = file
    /\ UNCHANGED <<collection, now, figs, canvas, locals, steps, calls>>

\* dsm = np.nan_to_num(dsm, nan=0)
NormalizeTerrain ==
    /\ main = "loaded"
    /\ dsm' = nan_to_num(dsm)
    /\ main' = "normalized"
    /\ UNCHANGED <<collection, now, figs, canvas, locals, steps, calls>>

\* app.run(host='0.0.0.0', port=7001)
AppRun ==
    /\ main = "normalized"
    /\ main' = "serving"
    /\ UNCHANGED <<dsm, collection, now, figs, canvas, locals, steps, calls>>

\* the readings datetime.now() can return after it has returned t: the wall
\* clock never runs backwards
Later(t) == t..MaxTick

-----------------------------------------------------------------------------
(* pyplot's figure registry *)

\* plt.gcf(): the current figure; with no figure open, one is created
gcf(fresh) == IF figs = <<>> THEN fresh ELSE figs[Len(figs)]
figs_after_gcf(fresh) == IF figs = <<>> THEN <<fresh>> ELSE figs

\* plt.close(): the current figure is closed, if there is one
close_current(fs) == IF fs = <<>> THEN fs ELSE SubSeq(fs, 1, Len(fs) - 1)

\* plt.close(fig): that figure is closed, if it is still open
close_figure(fs, f) == SelectSeq(fs, LAMBDA g : g # f)

\* a closed figure is out of the registry, so nothing can save it any more:
\* its drawing is dropped with it
is_open(fs, f) == \E i \in 1..Len(fs) : fs[i] = f
destroyed(fs) == [f \in Figures |-> IF is_open(fs, f) THEN canvas[f] ELSE <<>>]

-----------------------------------------------------------------------------
(* calculate_shadow, one request thread r *)

\* an exception raised outside any try block leaves calculate_shadow: Flask
\* answers with a server error
swallowed_compute(step) == IF step = "compute" THEN "archive" ELSE "failed"
swallowed_render(step) == IF step = "heatmap" THEN "hm_close" ELSE "failed"
uncaught(step) == "failed"

\* calculate_shadow goes from line 107 to the try block
render_first == "hm_figure"
after_compute == "archive"

\* the arguments of the calls at lines 110, 115 and 116
recomputed_argument(r) == calculate_shadow_matrix(MaxTick, dsm)
archive_argument(r) == shadow_matrix[r]
heatmap_argument(r) == shadow_matrix[r]
surface_argument(r) == shadow_matrix[r]

Raise(r, step) ==
    /\ pc' = [pc EXCEPT ![r] = uncaught(step)]
    /\ response' = [response EXCEPT ![r] =
                        IF uncaught(step) = "failed" THEN ServerError ELSE @]

\* a request arrives (requests are numbered in the order of their arrival):
\* timestamp = datetime.now()
Arrive(r) ==
    /\ main = "serving"
    /\ pc[r] = "idle"
    /\ \A q \in Requests : q < r => pc[q] # "idle"
    /\ \E t \in Later(now) :
        /\ now' = t
        /\ timestamp' = [timestamp EXCEPT ![r] = t]
    /\ steps' = [steps EXCEPT ![r] = Append(@, "timestamp")]
    /\ pc' = [pc EXCEPT ![r] = "resolve"]
    /\ UNCHANGED <<main, dsm, collection, figs, canvas, shadow_matrix, heatmap,
                   surface_plot, response, calls>>

\* calculate_shadow_matrix: get_solarposition and the reads of elevation and
\* azimuth, which raise when the calculator fails or returns no such column
Resolve(r) ==
    /\ pc[r] = "resolve"
    /\ \/ /\ Raise(r, "geometry")
          /\ calls' = [calls EXCEPT ![r].fault = "geometry"]
          /\ steps' = steps
       \/ /\ pc' = [pc EXCEPT ![r] = "compute"]
          /\ steps' = [steps EXCEPT ![r] = Append(@, "geometry")]
          /\ response' = response
          /\ calls' = calls
    /\ UNCHANGED <<shared, timestamp, shadow_matrix, heatmap, surface_plot>>

\* calculate_shadow_matrix: the shadow casting call, which may raise
Compute(r) ==
    /\ pc[r] = "compute"
    /\ \/ /\ Raise(r, "compute")
          /\ calls' = [calls EXCEPT ![r].fault = "compute"]
          /\ UNCHANGED <<steps, shadow_matrix>>
       \/ /\ shadow_matrix' = [shadow_matrix EXCEPT ![r] =
                                  calculate_shadow_matrix(timestamp[r], dsm)]
          /\ calls' = [calls EXCEPT ![r].compute = @ + 1]
          /\ pc' = [pc EXCEPT ![r] = after_compute]
          /\ steps' = [steps EXCEPT ![r] = Append(@, "compute")]
          /\ response' = response
    /\ UNCHANGED <<shared, timestamp, heatmap, surface_plot>>

\* the try block: compress_data, then save_shadow_matrix's insert_one; any
\* exception is logged and dropped
Archive(r) ==
    /\ pc[r] = "archive"
    /\ \E outcome \in {"ok", "serialize_error", "insert_error"} :
        /\ calls' = [calls EXCEPT ![r].archive = outcome,
                                  ![r].archive_arg = archive_argument(r),
                                  ![r].insert = @ + insert_calls(outcome)]
        /\ collection' = IF outcome = "ok"
                         THEN Append(collection,
                                     ArchiveDocument(timestamp[r], archive_argument(r)))
                         ELSE collection
        /\ pc' = [pc EXCEPT ![r] = archive_except(outcome)]
        /\ response' = [response EXCEPT ![r] =
                            IF archive_except(outcome) = "failed" THEN ServerError ELSE @]
    /\ steps' = [steps EXCEPT ![r] = Append(@, "archive")]
    /\ UNCHANGED <<main, dsm, now, figs, canvas, timestamp, shadow_matrix,
                   heatmap, surface_plot>>

\* generate_heatmap(shadow_matrix): plt.figure(figsize=(10, 8))
HmFigure(r) ==
    /\ pc[r] = "hm_figure"
    /\ calls' = [calls EXCEPT ![r].heatmap_arg = heatmap_argument(r)]
    /\ figs' = Append(figs, <<r, "hm_figure">>)
    /\ pc' = [pc EXCEPT ![r] = "hm_draw"]
    /\ UNCHANGED <<main, dsm, collection, now, canvas, timestamp, shadow_matrix,
                   heatmap, surface_plot, response, steps>>

\* sns.heatmap(matrix, cmap='viridis'): draws on plt.gca()
HmDraw(r) ==
    /\ pc[r] = "hm_draw"
    /\ LET f == gcf(<<r, "hm_draw">>)
       IN  canvas' = [canvas EXCEPT ![f] =
                          Append(@, HeatmapArtist(calls[r].heatmap_arg))]
    /\ figs' = figs_after_gcf(<<r, "hm_draw">>)
    /\ pc' = [pc EXCEPT ![r] = "hm_savefig"]
    /\ UNCHANGED <<main, dsm, collection, now, timestamp, shadow_matrix,
                   heatmap, surface_plot, response, steps, calls>>

\* plt.savefig(buf, format="png"): saves plt.gcf(); the bytes are encoded at
\* lines 60-63
HmSavefig(r) ==
    /\ pc[r] = "hm_savefig"
    /\ \/ /\ Raise(r, "heatmap")
          /\ calls' = [calls EXCEPT ![r].fault = "heatmap"]
          /\ UNCHANGED <<figs, heatmap>>
       \/ /\ heatmap' = [heatmap EXCEPT ![r] =
                            b64encode(png(canvas[gcf(<<r, "hm_savefig">>)]))]
          /\ figs' = figs_after_gcf(<<r, "hm_savefig">>)
          /\ pc' = [pc EXCEPT ![r] = "hm_close"]
          /\ UNCHANGED <<response, calls>>
    /\ UNCHANGED <<main, dsm, collection, now, canvas, timestamp, shadow_matrix,
                   surface_plot, steps>>

\* plt.close(), and generate_heatmap returns
HmClose(r) ==
    /\ pc[r] = "hm_close"
    /\ figs' = close_current(figs)
    /\ canvas' = destroyed(close_current(figs))
    /\ steps' = [steps EXCEPT ![r] = Append(@, "heatmap")]
    /\ pc' = [pc EXCEPT ![r] = "sp_figure"]
    /\ UNCHANGED <<main, dsm, collection, now, timestamp, shadow_matrix,
                   heatmap, surface_plot, response, calls>>

\* generate_surface_plot(shadow_matrix): the normalisation of dsm, then
\* fig = plt.figure() and fig.add_subplot
SpFigure(r) ==
    /\ pc[r] = "sp_figure"
    /\ calls' = [calls EXCEPT ![r].surface_arg = surface_argument(r)]
    /\ IF normalize_raises(dsm)
       THEN /\ Raise(r, "surface")
            /\ figs' = figs
       ELSE /\ figs' = Append(figs, <<r, "sp_figure">>)
            /\ pc' = [pc EXCEPT ![r] = "sp_plot"]
            /\ response' = response
    /\ UNCHANGED <<main, dsm, collection, now, canvas, timestamp, shadow_matrix,
                   heatmap, surface_plot, steps>>

\* ax.plot_surface(X, Y, shadow_matrix, facecolors=img, shade=False): draws on
\* the figure this call created, which another thread may have closed
SpPlot(r) ==
    /\ pc[r] = "sp_plot"
    /\ canvas' = IF is_open(figs, <<r, "sp_figure">>)
                 THEN [canvas EXCEPT ![<<r, "sp_figure">>] =
                          Append(@, SurfaceArtist(calls[r].surface_arg, facecolors(dsm)))]
                 ELSE canvas
    /\ pc' = [pc EXCEPT ![r] = "sp_savefig"]
    /\ UNCHANGED <<main, dsm, collection, now, figs, timestamp, shadow_matrix,
                   heatmap, surface_plot, response, steps, calls>>

\* plt.savefig(buf, format="png"): saves plt.gcf()
SpSavefig(r) ==
    /\ pc[r] = "sp_savefig"
    /\ \/ /\ Raise(r, "surface")
          /\ calls' = [calls EXCEPT ![r].fault = "surface"]
          /\ UNCHANGED <<figs, surface_plot>>
       \/ /\ surface_plot' = [surface_plot EXCEPT ![r] =
                                 b64encode(png(canvas[gcf(<<r, "sp_savefig">>)]))]
          /\ figs' = figs_after_gcf(<<r, "sp_savefig">>)
          /\ pc' = [pc EXCEPT ![r] = "sp_close"]
          /\ UNCHANGED <<response, calls>>
    /\ UNCHANGED <<main, dsm, collection, now, canvas, timestamp, shadow_matrix,
                   heatmap, steps>>

\* plt.close(fig), and generate_surface_plot returns
SpClose(r) ==
    /\ pc[r] = "sp_close"
    /\ figs' = close_figure(figs, <<r, "sp_figure">>)
    /\ canvas' = destroyed(close_figure(figs, <<r, "sp_figure">>))
    /\ steps' = [steps EXCEPT ![r] = Append(@, "surface")]
    /\ pc' = [pc EXCEPT ![r] = "respond"]
    /\ UNCHANGED <<main, dsm, collection, now, timestamp, shadow_matrix,
                   heatmap, surface_plot, response, calls>>

\* formatted_time, jsonify and return
Respond(r) ==
    /\ pc[r] = "respond"
    /\ response' = [response EXCEPT ![r] =
                        [status |-> 200,
                         body |-> [timestamp |-> strftime(timestamp[r]),
                                   heatmap |-> heatmap[r],
                                   surface_plot |-> surface_plot[r]]]]
    /\ steps' = [steps EXCEPT ![r] = Append(@, "response")]
    /\ pc' = [pc EXCEPT ![r] = "done"]
    /\ UNCHANGED <<shared, timestamp, shadow_matrix, heatmap, surface_plot, calls>>

calculate_shadow(r) ==
    \/ Arrive(r) \/ Resolve(r) \/ Compute(r) \/ Archive(r)
    \/ HmFigure(r) \/ HmDraw(r) \/ HmSavefig(r) \/ HmClose(r)
    \/ SpFigure(r) \/ SpPlot(r) \/ SpSavefig(r) \/ SpClose(r)
    \/ Respond(r)

Boot == InitClient \/ LoadTerrain \/ NormalizeTerrain \/ AppRun

\* the server dispatches every request to a thread of its own
Next == Boot \/ \E r \in Requests : calculate_shadow(r)

Spec == Init /\ [][Next]_vars

\* the server handles one request at a time
Alone(r) == \A q \in Requests \ {r} : pc[q] \in {"idle", "done", "failed"}

NextSerial == Boot \/ \E r \in Requests : Alone(r) /\ calculate_shadow(r)

SpecSerial == Init /\ [][NextSerial]_vars

-----------------------------------------------------------------------------
(* Properties *)

AllSteps == <<"timestamp", "geometry", "compute", "archive", "heatmap", "surface",
              "response">>

Computed(r) == calls[r].compute > 0
Archived(r) == calls[r].archive # "none"
Success(r) == response[r].status = 200

\* C1: for requests whose sun geometry and shadow computation succeeded, the
\* outcome and the content of the response do not depend on how the archive
\* step ended: a request alone on the server answers with the formatted
\* timestamp and the two renderings of its own matrix whether the archive
\* call stored the record, failed to serialise or failed to insert, and two
\* requests with the same timestamp that differ only in the archive outcome
\* get the same response.  Only the stored record differs.
C1_ArchiveOutcomeInvisible ==
    /\ \A r \in Requests :
        (Finished(r) /\ Computed(r)) =>
            /\ Archived(r)
            /\ Success(r) <=> calls[r].fault = "none"
            /\ Success(r) =>
                response[r].body =
                    [timestamp |-> strftime(timestamp[r]),
                     heatmap |-> HeatmapOf(calculate_shadow_matrix(timestamp[r], dsm)),
                     surface_plot |->
                        SurfaceOf(calculate_shadow_matrix(timestamp[r], dsm), dsm)]
    /\ \A r, q \in Requests :
        (/\ Finished(r) /\ Finished(q)
         /\ Computed(r) /\ Computed(q)
         /\ timestamp[r] = timestamp[q]
         /\ calls[r].fault = calls[q].fault) => response[r] = response[q]
    /\ Len(collection) = Cardinality({r \in Requests : calls[r].archive = "ok"})

\* two successful requests with the same timestamp, one archived and one not
C1_Witness ==
    \E r, q \in Requests :
        /\ pc[r] = "done" /\ pc[q] = "done"
        /\ timestamp[r] = timestamp[q]
        /\ calls[r].archive = "ok"
        /\ calls[q].archive \in {"serialize_error", "insert_error"}
        /\ Success(r) /\ response[r] = response[q]

\* C2: the archive step is attempted only after calculate_shadow_matrix has
\* returned: a request that has made an archive call or an insert has
\* computed its matrix, and a request whose sun geometry or shadow casting
\* raised has failed with no archive call, no insert and no stored record.
C2_ArchiveAfterCompute ==
    /\ \A r \in Requests :
        /\ (Archived(r) \/ calls[r].insert > 0) =>
                (Computed(r) /\ shadow_matrix[r] # NoGrid)
        /\ calls[r].fault \in {"geometry", "compute"} =>
                /\ pc[r] = "failed"
                /\ response[r] = ServerError
                /\ ~Archived(r)
                /\ calls[r].insert = 0
    /\ Len(collection) <= Cardinality({r \in Requests : Computed(r)})

\* a request failed in the shadow computation while nothing was stored
C2_Witness ==
    \E r \in Requests :
        /\ calls[r].fault = "compute"
        /\ pc[r] = "failed"
        /\ calls[r].insert = 0
        /\ collection = <<>>

\* C3: a failure of sun geometry, shadow computation, generate_heatmap or
\* generate_surface_plot fails the request; a success response exists only
\* for a request that completed every step without a fault, and it carries
\* both images.
C3_NoPartialResponse ==
    \A r \in Requests :
        /\ calls[r].fault # "none" => (pc[r] = "failed" /\ response[r] = ServerError)
        /\ pc[r] = "failed" => response[r] = ServerError
        /\ response[r] # NoResponse => Finished(r)
        /\ Success(r) =>
            /\ pc[r] = "done"
            /\ steps[r] = AllSteps
            /\ calls[r].fault = "none"
            /\ response[r].body.heatmap # NoPayload
            /\ response[r].body.surface_plot # NoPayload
            /\ response[r].body.timestamp = strftime(timestamp[r])

\* the surface rendering failed after the heatmap was rendered: no response
\* with the one image
C3_Witness ==
    \E r \in Requests :
        /\ calls[r].fault = "surface"
        /\ heatmap[r] # NoPayload
        /\ response[r] = ServerError

\* C4: requests handled by concurrent threads do not see each other's state:
\* every response carries the renderings of the request's own shadow matrix,
\* as if the request had run alone.
C4_RequestsIsolated ==
    \A r \in Requests :
        pc[r] = "done" =>
            /\ response[r].body.heatmap = HeatmapOf(shadow_matrix[r])
            /\ response[r].body.surface_plot = SurfaceOf(shadow_matrix[r], dsm)

Degenerate == main = "serving" /\ np_max(dsm) = np_min(dsm)
SunAt(r, elevation, azimuth) ==
    /\ timestamp[r] # NoTime
    /\ get_solarposition(timestamp[r]) = [elevation |-> elevation, azimuth |-> azimuth]
Zeros == [c \in Cells |-> 0]

\* C5: on the terrain of zeros with the sun at elevation 45 and azimuth 180,
\* a request computes a shadow matrix of zeros and, when no call of it
\* raises, answers successfully with two non-empty image payloads.
C5_FlatTerrain ==
    \A r \in Requests :
        (main = "serving" /\ dsm = FlatZero /\ SunAt(r, 45, 180)) =>
            /\ Computed(r) => shadow_matrix[r] = Zeros
            /\ (Finished(r) /\ calls[r].fault = "none") =>
                /\ Success(r)
                /\ Len(response[r].body.heatmap) > 0
                /\ Len(response[r].body.surface_plot) > 0

\* a request on the flat terrain under that sun has been answered
C5_Witness ==
    \E r \in Requests :
        /\ dsm = FlatZero /\ SunAt(r, 45, 180)
        /\ pc[r] = "done"
        /\ shadow_matrix[r] = Zeros
        /\ Success(r)

\* C6 as stated: on a degenerate terrain a request that reaches the surface
\* rendering fails, and no image payload is returned.
C6_DegenerateTerrainFails ==
    \A r \in Requests :
        (Degenerate /\ Finished(r) /\ Len(steps[r]) >= 5) =>
            (pc[r] = "failed" /\ response[r] = ServerError)

\* C6, amended: on a degenerate terrain the normalisation divides zero by
\* zero, which yields nan for every sample and raises nothing; the surface
\* is drawn in the colormap's bad colour and a request that meets no other
\* failure answers successfully with both image payloads.
C6_DegenerateTerrainRenders ==
    Degenerate =>
        /\ ~normalize_raises(dsm)
        /\ dsm_normalized(dsm) = [c \in Cells |-> NaN]
        /\ facecolors(dsm) = [c \in Cells |-> viridis(NaN)]
        /\ viridis(NaN).bad
        /\ \A r \in Requests :
            /\ (Finished(r) /\ calls[r].fault = "none") =>
                /\ Success(r)
                /\ response[r].body.heatmap # NoPayload
                /\ response[r].body.surface_plot # NoPayload
            /\ pc[r] = "failed" => calls[r].fault # "none"

\* a request on a degenerate terrain got past the normalisation and was
\* answered with a surface drawn in the bad colour
C6_Witness ==
    \E r \in Requests :
        /\ Degenerate
        /\ pc[r] = "done"
        /\ Success(r)
        /\ \E i \in 1..Len(surface_plot[r]) :
              /\ i > 1
              /\ surface_plot[r][i][2].kind = "surface"
              /\ \A c \in Cells : surface_plot[r][i][2].facecolors[c].bad

\* C7: when loading the terrain fails the process ends and never serves: no
\* request is ever handled and the process stays ended; and every request
\* that is handled runs with the terrain loaded and free of nan.
C7_ServesOnlyLoadedTerrain ==
    /\ [](/\ Exited => \A r \in Requests : pc[r] = "idle" /\ response[r] = NoResponse
          /\ main = "load_error" => dsm = NoGrid
          /\ \A r \in Requests :
                pc[r] # "idle" =>
                    /\ main = "serving"
                    /\ DOMAIN dsm = Cells
                    /\ \A c \in Cells : dsm[c].k = "num")
    /\ [][(Exited => main' = main) /\ (main = "serving" => UNCHANGED <<main, dsm>>)]_vars

\* a request was served on the terrain whose artifact held a nan
C7_Witness ==
    \E r \in Requests :
        /\ pc[r] = "done"
        /\ dsm = nan_to_num(PeakNaN)
        /\ dsm # PeakNaN

\* C8 as stated: every request whose shadow computation succeeded makes
\* exactly one insert attempt.
C8_ExactlyOneInsert ==
    \A r \in Requests :
        /\ "archive" \in {steps[r][i] : i \in 1..Len(steps[r])} => calls[r].insert = 1
        /\ ~Computed(r) => calls[r].insert = 0

\* C8, amended: a request makes at most one insert attempt: exactly one when
\* its shadow computation and the serialisation of the matrix succeeded
\* (whether or not rendering succeeds later), none when the computation did
\* not succeed or compress_data raised; no attempt is repeated, and the
\* collection only grows by appending one record at a time.
C8_AtMostOneInsert ==
    /\ [](\A r \in Requests :
            /\ calls[r].insert <= 1
            /\ calls[r].insert = 1 <=> calls[r].archive \in {"ok", "insert_error"}
            /\ Archived(r) <=> "archive" \in {steps[r][i] : i \in 1..Len(steps[r])}
            /\ Archived(r) => Computed(r))
    /\ [](Len(collection) = Cardinality({r \in Requests : calls[r].archive = "ok"}))
    /\ [][\/ collection' = collection
          \/ /\ Len(collection') = Len(collection) + 1
             /\ SubSeq(collection', 1, Len(collection)) = collection]_vars
    /\ [][\A r \in Requests :
            /\ calls'[r].insert >= calls[r].insert
            /\ Archived(r) => calls'[r].archive = calls[r].archive]_vars

\* two records with equal timestamps are stored, one of a request whose
\* rendering failed afterwards
C8_Witness ==
    /\ Len(collection) = 2
    /\ collection[1].timestamp = collection[2].timestamp
    /\ \E r \in Requests : calls[r].archive = "ok" /\ calls[r].fault = "heatmap"

Rendering(r) == pc[r] \in {"hm_figure", "hm_draw", "hm_savefig", "hm_close",
                           "sp_figure", "sp_plot", "sp_savefig", "sp_close"}
InSurface(r) == pc[r] \in {"sp_figure", "sp_plot", "sp_savefig", "sp_close"}

\* the steps a request at pc has completed
StepsBefore(p) ==
    IF p = "idle" THEN 0
    ELSE IF p = "resolve" THEN 1
    ELSE IF p = "compute" THEN 2
    ELSE IF p = "archive" THEN 3
    ELSE IF p \in {"hm_figure", "hm_draw", "hm_savefig", "hm_close"} THEN 4
    ELSE IF p \in {"sp_figure", "sp_plot", "sp_savefig", "sp_close"} THEN 5
    ELSE IF p = "respond" THEN 6
    ELSE 7

\* C9: within a request the steps complete in the order timestamp, sun
\* geometry, shadow matrix, archive, heatmap, surface, response, each one
\* starting when the one before it has finished: the archive step is over
\* (stored or failure dropped) before rendering begins, and the response is
\* assembled after both renderings.
C9_StepOrder ==
    \A r \in Requests :
        /\ Len(steps[r]) <= Len(AllSteps)
        /\ steps[r] = SubSeq(AllSteps, 1, Len(steps[r]))
        /\ pc[r] # "failed" => Len(steps[r]) = StepsBefore(pc[r])
        /\ Rendering(r) => (Archived(r) /\ response[r] = NoResponse)
        /\ heatmap[r] # NoPayload => Archived(r)
        /\ surface_plot[r] # NoPayload => (Archived(r) /\ heatmap[r] # NoPayload)
        /\ Success(r) => (heatmap[r] # NoPayload /\ surface_plot[r] # NoPayload)

\* a request is rendering its surface after an archive call that failed
C9_Witness ==
    \E r \in Requests :
        /\ pc[r] = "sp_savefig"
        /\ calls[r].archive = "insert_error"
        /\ steps[r] = <<"timestamp", "geometry", "compute", "archive", "heatmap">>

\* C10: within a request the shadow matrix is computed once, and the archive
\* call, generate_heatmap and generate_surface_plot all receive that matrix:
\* it is the matrix of the request's timestamp from its computation on,
\* whatever the archive call and the renderers do.
C10_OneMatrix ==
    /\ [](\A r \in Requests :
            /\ calls[r].compute <= 1
            /\ Computed(r) <=> shadow_matrix[r] # NoGrid
            /\ Archived(r) => calls[r].archive_arg = shadow_matrix[r]
            /\ (Rendering(r) /\ pc[r] # "hm_figure") =>
                    calls[r].heatmap_arg = shadow_matrix[r]
            /\ (InSurface(r) /\ pc[r] # "sp_figure") =>
                    calls[r].surface_arg = shadow_matrix[r]
            /\ pc[r] = "done" =>
                /\ calls[r].heatmap_arg = shadow_matrix[r]
                /\ calls[r].surface_arg = shadow_matrix[r]
            /\ calls[r].archive = "ok" =>
                \E i \in 1..Len(collection) :
                    collection[i] = [timestamp |-> timestamp[r],
                                     shadow_matrix |-> compress_data(shadow_matrix[r])])
    /\ [][\A r \in Requests :
            /\ Computed(r) => shadow_matrix'[r] = shadow_matrix[r]
            /\ shadow_matrix'[r] # shadow_matrix[r] =>
                    /\ pc[r] = "compute"
                    /\ shadow_matrix'[r] = calculate_shadow_matrix(timestamp[r], dsm)]_vars

\* a request on the terrain with relief has archived and rendered a matrix
\* that has shadow in it
C10_Witness ==
    \E r \in Requests :
        /\ pc[r] = "done"
        /\ calls[r].archive = "ok"
        /\ shadow_matrix[r] # Zeros
        /\ calls[r].surface_arg = shadow_matrix[r]


\* the matrices drawn on the image of a payload
DrawnOn(payload) == {payload[i][2].z : i \in 2..Len(payload)}

\* the timestamp half of C11: a request reads the clock once, its sun
\* geometry and shadow matrix are those of that reading, the stored record
\* carries the reading itself and the response carries it formatted
OwnTimestamp(r) ==
    /\ pc[r] # "idle" =>
        /\ timestamp[r] \in 0..MaxTick
        /\ timestamp[r] <= now
        /\ Cardinality({i \in 1..Len(steps[r]) : steps[r][i] = "timestamp"}) = 1
    /\ Computed(r) => shadow_matrix[r] = calculate_shadow_matrix(timestamp[r], dsm)
    /\ calls[r].archive = "ok" =>
        \E i \in 1..Len(collection) :
            /\ collection[i].timestamp = timestamp[r]
            /\ collection[i].shadow_matrix =
                   compress_data(calculate_shadow_matrix(timestamp[r], dsm))
    /\ Success(r) => response[r].body.timestamp = strftime(timestamp[r])

\* the reuse half of C11: nothing in the images of a response was drawn from
\* the matrix of a request that arrived earlier
NoEarlierResult(r) ==
    Success(r) =>
        \A q \in Requests :
            (q < r /\ Computed(q) /\ shadow_matrix[q] # shadow_matrix[r]) =>
                /\ shadow_matrix[q] \notin DrawnOn(response[r].body.heatmap)
                /\ shadow_matrix[q] \notin DrawnOn(response[r].body.surface_plot)

\* C11: every request reads the current time once and uses that timestamp
\* for the sun geometry, for the archived record and, formatted to the
\* second, for the response; no timestamp, geometry, shadow matrix or image
\* of an earlier request appears in its results.
C11_OwnPipeline ==
    \A r \in Requests : OwnTimestamp(r) /\ NoEarlierResult(r)

=============================================================================
